---- MODULE Spec2Model ----
(***************************************************************************)
(* Model of JsonToCsvConverter (src/json_to_csv_converter.py): the         *)
(* recursive flattener flatten_json and the writer json_to_csv with its    *)
(* splitting helper _write_split_csv.                                      *)
(*                                                                         *)
(* JSON values are tagged records.  A Python dict is an insertion-ordered  *)
(* mapping; it is modelled as a sequence of <<key, value>> pairs whose     *)
(* keys are pairwise distinct.  Strings are TLA+ strings, so composite     *)
(* keys are really concatenated and two paths can really collide.          *)
(***************************************************************************)
EXTENDS Integers, Sequences, FiniteSets, TLC

(***************************************************************************)
(* Bounds                                                                  *)
(***************************************************************************)
MaxNodes == 4

MaxRecords == 4

MaxThreshold == 3

(***************************************************************************)
(* JSON values                                                             *)
(***************************************************************************)
Str(s) == [tag |-> "str", s |-> s]

Num(n) == [tag |-> "num", n |-> n]

Null == [tag |-> "null"]

Obj(items) == [tag |-> "obj", items |-> items]

Arr(items) == [tag |-> "arr", items |-> items]

IsContainer(value) == value.tag \in {"obj", "arr"}

Range(s) == {s[i] : i \in 1..Len(s)}

\* The object keys and scalars the bounded inputs are built from.
Keys == {"a", "a_a", ""}

Scalars == {Str("x"), Num(1)}

Prefixes == {"", "a"}

\* All sequences of n pairwise distinct keys.
RECURSIVE KeySeqs(_)
KeySeqs(n) ==
    IF n = 0 THEN {<<>>}
    ELSE {s \in {Append(ks, k) : ks \in KeySeqs(n - 1), k \in Keys} :
            \A i \in 1..(n - 1) : s[i] # s[n]}

\* ValuesOfSize(n): the JSON values with exactly n nodes;
\* ChildSeqs(m): the sequences of JSON values with m nodes in total.
RECURSIVE ValuesOfSize(_), ChildSeqs(_)
ValuesOfSize(n) ==
    IF n < 1 THEN {}
    ELSE (IF n = 1 THEN Scalars ELSE {}) \cup
         {Arr(cs) : cs \in ChildSeqs(n - 1)} \cup
         UNION {{Obj([i \in 1..Len(cs) |-> <<ks[i], cs[i]>>]) : ks \in KeySeqs(Len(cs))} :
                cs \in {c \in ChildSeqs(n - 1) : Len(c) <= Cardinality(Keys)}}

ChildSeqs(m) ==
    IF m = 0 THEN {<<>>}
    ELSE UNION {{<<v>> \o rest : v \in ValuesOfSize(s), rest \in ChildSeqs(m - s)} :
                s \in 1..m}

JsonValues == UNION {ValuesOfSize(n) : n \in 1..MaxNodes}

(***************************************************************************)
(* Python dict operations on the pair-sequence representation              *)
(***************************************************************************)
DictKeys(d) == [i \in 1..Len(d) |-> d[i][1]]

HasKey(d, key) == \E i \in 1..Len(d) : d[i][1] = key

\* record.get(key, default)
DictGet(d, key, default) ==
    IF HasKey(d, key) THEN d[CHOOSE i \in 1..Len(d) : d[i][1] = key][2] ELSE default

\* d[key] = value: an existing key keeps its position and takes the new
\* value, a new key goes to the end.
DictSet(d, key, value) ==
    IF HasKey(d, key)
    THEN [i \in 1..Len(d) |-> IF d[i][1] = key THEN <<key, value>> ELSE d[i]]
    ELSE Append(d, <<key, value>>)

\* A dict constructor that keeps the first value of a repeated key.
RECURSIVE dict_keep_first(_)
dict_keep_first(items) ==
    IF items = <<>> THEN <<>>
    ELSE LET d == dict_keep_first(SubSeq(items, 1, Len(items) - 1))
             last == items[Len(items)]
         IN  IF HasKey(d, last[1]) THEN d ELSE Append(d, last)

\* dict(items): insert the pairs left to right.
RECURSIVE dict(_)
dict(items) ==
    IF items = <<>> THEN <<>>
    ELSE LET last == items[Len(items)]
         IN  DictSet(dict(SubSeq(items, 1, Len(items) - 1)), last[1], last[2])

(***************************************************************************)
(* flatten_json                                                            *)
(***************************************************************************)
sep == "_"

\* A composite key that loses the separator.
new_key_no_sep(parent_key, key) ==
    IF parent_key # "" THEN parent_key \o key ELSE key

\* f"{parent_key}{sep}{key}" if parent_key else key
new_key(parent_key, key) ==
    IF parent_key # "" THEN parent_key \o sep \o key ELSE key

\* flatten_entries(data, parent_key, i) is the list `items` contributed by
\* the loop iterations i, i+1, ... over a dict's pairs or a list's elements.
RECURSIVE flatten_json(_, _), flatten_entries(_, _, _)
flatten_json(data, parent_key) ==
    IF IsContainer(data)
    THEN dict(flatten_entries(data, parent_key, 1))
    ELSE IF parent_key # "" THEN <<<<parent_key, data>>>> ELSE <<>>

flatten_entries(data, parent_key, i) ==
    IF i > Len(data.items) THEN <<>>
    ELSE LET key == IF data.tag = "obj" THEN data.items[i][1] ELSE ToString(i - 1)
             value == IF data.tag = "obj" THEN data.items[i][2] ELSE data.items[i]
             nk == new_key(parent_key, key)
             here == IF IsContainer(value)
                     THEN flatten_json(value, nk)
                     ELSE <<<<nk, value>>>>
         IN  here \o flatten_entries(data, parent_key, i + 1)

(***************************************************************************)
(* json_to_csv and _write_split_csv: helpers                               *)
(***************************************************************************)
\* Key collection that appends every key, seen before or not.
RECURSIVE append_all_keys(_, _)
append_all_keys(keys, new) ==
    IF new = <<>> THEN keys ELSE append_all_keys(Append(keys, new[1]), Tail(new))

\* for key in flattened.keys(): if key not in ordered_keys: ordered_keys.append(key)
RECURSIVE append_new_keys(_, _)
append_new_keys(keys, new) ==
    IF new = <<>> THEN keys
    ELSE append_new_keys(IF new[1] \in Range(keys) THEN keys ELSE Append(keys, new[1]),
                         Tail(new))

\* A split test that also splits when the record count equals the threshold.
should_split_at_equal(max_rows, total_records) ==
    /\ max_rows.tag = "num"
    /\ max_rows.n # 0
    /\ max_rows.n > 0
    /\ total_records >= max_rows.n

\* max_rows_per_file and max_rows_per_file > 0 and total_records > max_rows_per_file
should_split(max_rows, total_records) ==
    /\ max_rows.tag = "num"
    /\ max_rows.n # 0
    /\ max_rows.n > 0
    /\ total_records > max_rows.n

\* Floor division in place of the ceiling division.
num_files_floor(total_records, max_rows) == total_records \div max_rows

\* (total_records + max_rows_per_file - 1) // max_rows_per_file
num_files_of(total_records, max_rows) == (total_records + max_rows - 1) \div max_rows

start_idx_of(fnum, max_rows) == (fnum - 1) * max_rows

Min(a, b) == IF a < b THEN a ELSE b

end_idx_of(fnum, max_rows, total_records) ==
    Min(start_idx_of(fnum, max_rows) + max_rows, total_records)

\* A file on disk is named by its directory and its file name.
FsPath(parent, name) == [parent |-> parent, name |-> name]

\* The Path object output_path is its parent, stem and suffix; its name is
\* stem + suffix.
PathOf(path) == FsPath(path.parent, path.stem \o path.suffix)

\* Chunk files numbered from 0.
chunk_path_zero_based(path, nfiles, fnum) ==
    IF nfiles > 1
    THEN FsPath(path.parent, path.stem \o "_" \o ToString(fnum - 1) \o path.suffix)
    ELSE PathOf(path)

\* base_dir / f"{base_name}_{file_num}{base_ext}" if num_files > 1 else output_path
chunk_path(path, nfiles, fnum) ==
    IF nfiles > 1
    THEN FsPath(path.parent, path.stem \o "_" \o ToString(fnum) \o path.suffix)
    ELSE PathOf(path)

\* Missing keys filled with the text of None instead of ''.
complete_record_none_text(record, keys) ==
    [k \in 1..Len(keys) |-> <<keys[k], DictGet(record, keys[k], Str("None"))>>]

\* {key: record.get(key, '') for key in ordered_keys}
complete_record(record, keys) ==
    [k \in 1..Len(keys) |-> <<keys[k], DictGet(record, keys[k], Str(""))>>]

\* The csv writer's text of a field: None gives '', a str itself, anything
\* else str(value).
csv_field(value) ==
    CASE value.tag = "null" -> ""
      [] value.tag = "str" -> value.s
      [] value.tag = "num" -> ToString(value.n)

\* DictWriter.writerow: rowdict.get(key, restval) for each key of fieldnames,
\* restval being ''.  A file is kept as its sequence of rows, a row as its
\* sequence of field texts; the quotes QUOTE_ALL puts around each field are
\* not represented.
writerow(fieldnames, rowdict) ==
    [k \in 1..Len(fieldnames) |-> csv_field(DictGet(rowdict, fieldnames[k], Str("")))]

\* DictWriter.writeheader: the row of the field names.
writeheader(fieldnames) == fieldnames

\* ", ".join(names)
RECURSIVE join(_)
join(names) ==
    IF names = <<>> THEN ""
    ELSE IF Len(names) = 1 THEN names[1]
    ELSE names[1] \o ", " \o join(Tail(names))

single_message(total_records) ==
    "Created 1 CSV file with " \o ToString(total_records) \o " rows"

split_message(nfiles, total_records, names) ==
    "Created " \o ToString(nfiles) \o " CSV file(s) with " \o ToString(total_records)
        \o " total rows: " \o join(names)

Result(success, nfiles, message) ==
    [success |-> success, num_files |-> nfiles, message |-> message]

TypeErrorMessage == "JSON data must be a dict or list of dicts"

EmptyErrorMessage == "JSON data is empty"

\* Normalisation that lets an empty list through.
normalize_allow_empty(data) ==
    IF data.tag = "obj" THEN [ok |-> TRUE, list |-> <<data>>]
    ELSE IF data.tag # "arr" THEN [ok |-> FALSE, error |-> TypeErrorMessage]
    ELSE [ok |-> TRUE, list |-> data.items]

\* Lines 74-80: wrap a dict, reject what is neither dict nor list, reject
\* the empty list.
normalize(data) ==
    IF data.tag = "obj" THEN [ok |-> TRUE, list |-> <<data>>]
    ELSE IF data.tag # "arr" THEN [ok |-> FALSE, error |-> TypeErrorMessage]
    ELSE IF data.items = <<>> THEN [ok |-> FALSE, error |-> EmptyErrorMessage]
    ELSE [ok |-> TRUE, list |-> data.items]

(***************************************************************************)
(* Inputs of a conversion                                                  *)
(***************************************************************************)
\* {"a": "x"}
RecA == Obj(<< <<"a", Str("x")>> >>)

\* {"b": null, "a": 1}
RecBA == Obj(<< <<"b", Null>>, <<"a", Num(1)>> >>)

\* {"a_b": "x", "a": {"b": 1}}: two paths with the composite key a_b
RecCollide == Obj(<< <<"a_b", Str("x")>>, <<"a", Obj(<< <<"b", Num(1)>> >>)>> >>)

\* a list element that is a bare scalar
RecScalar == Num(7)

RecordPool == {RecA, RecBA, RecCollide, RecScalar}

RECURSIVE SeqsUpTo(_, _)
SeqsUpTo(S, n) ==
    IF n = 0 THEN {<<>>}
    ELSE LET shorter == SeqsUpTo(S, n - 1)
         IN  shorter \cup {Append(q, x) : q \in {r \in shorter : Len(r) = n - 1}, x \in S}

JsonInputs ==
    {Arr(q) : q \in SeqsUpTo(RecordPool, MaxRecords)}
        \cup {RecA, RecCollide} \cup {Num(42), Null, Str("x")}

Thresholds == {Null} \cup {Num(n) : n \in 0..MaxThreshold}

OutputPaths ==
    {[parent |-> "dir", stem |-> "out", suffix |-> ".csv"],
     [parent |-> "dir", stem |-> "out", suffix |-> ""]}

IOErrors == {"Permission denied", "No space left on device"}

(***************************************************************************)
(* State                                                                   *)
(***************************************************************************)
VARIABLES
    json_data,          \* argument: the parsed JSON value
    output_path,        \* argument: the Path to write
    max_rows_per_file,  \* argument: Null (None) or an integer
    pc,                 \* position in json_to_csv / _write_split_csv
    records,            \* json_data after normalisation (a list)
    flattened_records,
    ordered_keys,
    num_files,
    file_num,
    i,                  \* number of records written so far (loop position)
    created_files,
    fs,                 \* the disk: file path -> rows written
    open_handles,       \* paths of the files this call holds open
    opened,             \* history: the paths passed to open(), in order
    io_error,           \* history: the OSError raised by the disk, or Null
    result,             \* the returned tuple, Null before the return
    fl_data,            \* flatten_json called on its own: data
    fl_parent,          \*   parent_key
    fl_result,          \*   returned dict
    json_file_path,     \* window: the selected JSON file, Null for None
    json_text_content,  \* window: the stripped pasted text, Null for None
    editor_text,        \* window: the text in json_text_edit
    current_tab,        \* window: input_tabs.currentIndex()
    split_checked,      \* window: split_checkbox.isChecked()
    convert_btn_enabled,
    progress_visible,
    last_box,           \* window: the kind of the last message box shown
    threads,            \* the ConversionThreads started, in order
    conversion_thread,  \* window: index of the thread it refers to, 0 for None
    existing_files,     \* the JSON files that exist on disk
    app                 \* "running", or "aborted" once the process has died

vars == <<json_data, output_path, max_rows_per_file, pc, records, flattened_records,
          ordered_keys, num_files, file_num, i, created_files, fs, open_handles,
          opened, io_error, result, fl_data, fl_parent, fl_result,
          json_file_path, json_text_content, editor_text, current_tab, split_checked,
          convert_btn_enabled, progress_visible, last_box, threads, conversion_thread,
          existing_files, app>>

inputs == <<json_data, output_path, max_rows_per_file>>

flat == <<fl_data, fl_parent, fl_result>>

gui == <<json_file_path, json_text_content, editor_text, current_tab, split_checked,
         convert_btn_enabled, progress_visible, last_box, threads, conversion_thread,
         existing_files, app>>

EmptyFs == [p \in {} |-> <<>>]

\* The JSON files the user can select.
JsonFiles == {"good.json", "bad.json"}

\* JsonToCsvWindow.__init__ and init_ui: nothing selected, nothing pasted,
\* the file tab in front, the convert button disabled, the progress bar
\* hidden, no thread.
WindowInit ==
    /\ json_file_path = Null
    /\ json_text_content = Null
    /\ editor_text = ""
    /\ current_tab = 0
    /\ split_checked = FALSE
    /\ convert_btn_enabled = FALSE
    /\ progress_visible = FALSE
    /\ last_box = "none"
    /\ threads = <<>>
    /\ conversion_thread = 0
    /\ existing_files = JsonFiles
    /\ app = "running"

total_records == Len(flattened_records)

LocalsInit ==
    /\ records = <<>>
    /\ flattened_records = <<>>
    /\ ordered_keys = <<>>
    /\ num_files = 0
    /\ file_num = 0
    /\ i = 0
    /\ created_files = <<>>
    /\ fs = EmptyFs
    /\ open_handles = {}
    /\ opened = <<>>
    /\ io_error = Null
    /\ result = Null

Init ==
    /\ json_data \in JsonInputs
    /\ output_path \in OutputPaths
    /\ max_rows_per_file \in Thresholds
    /\ pc = "start"
    /\ LocalsInit
    /\ fl_data = Null
    /\ fl_parent = ""
    /\ fl_result = <<>>
    /\ WindowInit

(***************************************************************************)
(* json_to_csv                                                             *)
(***************************************************************************)
\* Lines 72-80 and the handler of lines 119-121 for the two ValueErrors.
Normalize ==
    /\ pc = "start"
    /\ LET n == normalize(json_data)
       IN  IF n.ok
           THEN /\ records' = n.list
                /\ pc' = "flatten"
                /\ result' = result
           ELSE /\ records' = records
                /\ pc' = "done"
                /\ result' = Result(FALSE, 0, n.error)
    /\ UNCHANGED <<inputs, flattened_records, ordered_keys, num_files, file_num, i,
                   created_files, fs, open_handles, opened, io_error, flat, gui>>

\* Lines 86-92: one iteration of the loop over the records.
FlattenRecord ==
    /\ pc = "flatten"
    /\ Len(flattened_records) < Len(records)
    /\ LET record == records[Len(flattened_records) + 1]
           flattened == flatten_json(record, "")
       IN  /\ flattened_records' = Append(flattened_records, flattened)
           /\ ordered_keys' = append_new_keys(ordered_keys, DictKeys(flattened))
    /\ UNCHANGED <<inputs, pc, records, num_files, file_num, i, created_files, fs,
                   open_handles, opened, io_error, result, flat, gui>>

\* Lines 94-101: the loop is over; choose the split or the single file.
Decide ==
    /\ pc = "flatten"
    /\ Len(flattened_records) = Len(records)
    /\ pc' = IF should_split(max_rows_per_file, total_records)
             THEN "split_begin" ELSE "single_open"
    /\ UNCHANGED <<inputs, records, flattened_records, ordered_keys, num_files,
                   file_num, i, created_files, fs, open_handles, opened, io_error,
                   result, flat, gui>>

\* Line 103: open(output_path, 'w') creates or truncates the file.
SingleOpen ==
    /\ pc = "single_open"
    /\ fs' = (PathOf(output_path) :> <<>>) @@ fs
    /\ open_handles' = open_handles \cup {PathOf(output_path)}
    /\ opened' = Append(opened, PathOf(output_path))
    /\ pc' = "single_header"
    /\ UNCHANGED <<inputs, records, flattened_records, ordered_keys, num_files,
                   file_num, i, created_files, io_error, result, flat, gui>>

\* Lines 104-111.
SingleWriteHeader ==
    /\ pc = "single_header"
    /\ fs' = [fs EXCEPT ![PathOf(output_path)] = Append(@, writeheader(ordered_keys))]
    /\ i' = 0
    /\ pc' = "single_rows"
    /\ UNCHANGED <<inputs, records, flattened_records, ordered_keys, num_files,
                   file_num, created_files, open_handles, opened, io_error, result,
                   flat, gui>>

\* Lines 113-115: one iteration of the loop over flattened_records.
SingleWriteRow ==
    /\ pc = "single_rows"
    /\ i < total_records
    /\ LET record == flattened_records[i + 1]
       IN  fs' = [fs EXCEPT ![PathOf(output_path)] =
                     Append(@, writerow(ordered_keys, complete_record(record, ordered_keys)))]
    /\ i' = i + 1
    /\ UNCHANGED <<inputs, pc, records, flattened_records, ordered_keys, num_files,
                   file_num, created_files, open_handles, opened, io_error, result,
                   flat, gui>>

\* The end of the with block closes the file; line 117 returns.
SingleClose ==
    /\ pc = "single_rows"
    /\ i = total_records
    /\ open_handles' = open_handles \ {PathOf(output_path)}
    /\ result' = Result(TRUE, 1, single_message(total_records))
    /\ pc' = "done"
    /\ UNCHANGED <<inputs, records, flattened_records, ordered_keys, num_files,
                   file_num, i, created_files, fs, opened, io_error, flat, gui>>

\* An OSError from open, a write or the close at lines 103-115: the with
\* block releases the file if it was opened, and the handler of lines
\* 119-121 returns (False, 0, str(e)).
SingleFail ==
    /\ pc \in {"single_open", "single_header", "single_rows"}
    /\ \E e \in IOErrors :
          /\ io_error' = Str(e)
          /\ result' = Result(FALSE, 0, e)
    /\ open_handles' = open_handles \ {PathOf(output_path)}
    /\ pc' = "done"
    /\ UNCHANGED <<inputs, records, flattened_records, ordered_keys, num_files,
                   file_num, i, created_files, fs, opened, flat, gui>>

(***************************************************************************)
(* _write_split_csv                                                        *)
(***************************************************************************)
file_path == chunk_path(output_path, num_files, file_num)

\* Lines 139-147.
SplitBegin ==
    /\ pc = "split_begin"
    /\ num_files' = num_files_of(total_records, max_rows_per_file.n)
    /\ created_files' = <<>>
    /\ file_num' = 1
    /\ pc' = "chunk_open"
    /\ UNCHANGED <<inputs, records, flattened_records, ordered_keys, i, fs,
                   open_handles, opened, io_error, result, flat, gui>>

\* Lines 149-160: the next iteration of the loop over file_num starts and
\* opens its file.
ChunkOpen ==
    /\ pc = "chunk_open"
    /\ file_num <= num_files
    /\ fs' = (file_path :> <<>>) @@ fs
    /\ open_handles' = open_handles \cup {file_path}
    /\ opened' = Append(opened, file_path)
    /\ i' = start_idx_of(file_num, max_rows_per_file.n)
    /\ pc' = "chunk_header"
    /\ UNCHANGED <<inputs, records, flattened_records, ordered_keys, num_files,
                   file_num, created_files, io_error, result, flat, gui>>

\* Lines 161-168.
ChunkWriteHeader ==
    /\ pc = "chunk_header"
    /\ fs' = [fs EXCEPT ![file_path] = Append(@, writeheader(ordered_keys))]
    /\ pc' = "chunk_rows"
    /\ UNCHANGED <<inputs, records, flattened_records, ordered_keys, num_files,
                   file_num, i, created_files, open_handles, opened, io_error, result,
                   flat, gui>>

\* Lines 170-173: one iteration of the loop over range(start_idx, end_idx).
ChunkWriteRow ==
    /\ pc = "chunk_rows"
    /\ i < end_idx_of(file_num, max_rows_per_file.n, total_records)
    /\ LET record == flattened_records[i + 1]
       IN  fs' = [fs EXCEPT ![file_path] =
                     Append(@, writerow(ordered_keys, complete_record(record, ordered_keys)))]
    /\ i' = i + 1
    /\ UNCHANGED <<inputs, pc, records, flattened_records, ordered_keys, num_files,
                   file_num, created_files, open_handles, opened, io_error, result,
                   flat, gui>>

\* A chunk's close that leaves the file open.
ChunkCloseLeaveOpen ==
    /\ pc = "chunk_rows"
    /\ i = end_idx_of(file_num, max_rows_per_file.n, total_records)
    /\ created_files' = Append(created_files, file_path.name)
    /\ file_num' = file_num + 1
    /\ pc' = "chunk_open"
    /\ UNCHANGED <<inputs, records, flattened_records, ordered_keys, num_files, i, fs,
                   open_handles, opened, io_error, result, flat, gui>>

\* The end of the with block closes the file; line 175 records its name and
\* the loop moves to the next file_num.
ChunkClose ==
    /\ pc = "chunk_rows"
    /\ i = end_idx_of(file_num, max_rows_per_file.n, total_records)
    /\ open_handles' = open_handles \ {file_path}
    /\ created_files' = Append(created_files, file_path.name)
    /\ file_num' = file_num + 1
    /\ pc' = "chunk_open"
    /\ UNCHANGED <<inputs, records, flattened_records, ordered_keys, num_files, i, fs,
                   opened, io_error, result, flat, gui>>

\* Lines 177-178: the loop is over.
SplitReturn ==
    /\ pc = "chunk_open"
    /\ file_num > num_files
    /\ result' = Result(TRUE, num_files,
                        split_message(num_files, total_records, created_files))
    /\ pc' = "done"
    /\ UNCHANGED <<inputs, records, flattened_records, ordered_keys, num_files,
                   file_num, i, created_files, fs, open_handles, opened, io_error,
                   flat, gui>>

\* A failing chunk that is skipped: the loop goes on with the next file.
ChunkFailSkip ==
    /\ \/ pc = "chunk_open" /\ file_num <= num_files
       \/ pc \in {"chunk_header", "chunk_rows"}
    /\ \E e \in IOErrors : io_error' = Str(e)
    /\ open_handles' = open_handles \ {file_path}
    /\ file_num' = file_num + 1
    /\ pc' = "chunk_open"
    /\ UNCHANGED <<inputs, records, flattened_records, ordered_keys, num_files, i,
                   created_files, fs, opened, result, flat, gui>>

\* An OSError from open, a write or the close at lines 160-173: the with
\* block releases the file if it was opened, and the handler of lines
\* 180-182 returns (False, 0, str(e)); json_to_csv returns that tuple.
ChunkFail ==
    /\ \/ pc = "chunk_open" /\ file_num <= num_files
       \/ pc \in {"chunk_header", "chunk_rows"}
    /\ \E e \in IOErrors :
          /\ io_error' = Str(e)
          /\ result' = Result(FALSE, 0, e)
    /\ open_handles' = open_handles \ {file_path}
    /\ pc' = "done"
    /\ UNCHANGED <<inputs, records, flattened_records, ordered_keys, num_files,
                   file_num, i, created_files, fs, opened, flat, gui>>

Next ==
    \/ Normalize
    \/ FlattenRecord
    \/ Decide
    \/ SingleOpen
    \/ SingleWriteHeader
    \/ SingleWriteRow
    \/ SingleClose
    \/ SingleFail
    \/ SplitBegin
    \/ ChunkOpen
    \/ ChunkWriteHeader
    \/ ChunkWriteRow
    \/ ChunkClose
    \/ SplitReturn
    \/ ChunkFail

Spec == Init /\ [][Next]_vars

(***************************************************************************)
(* flatten_json on its own, for every bounded value and prefix             *)
(***************************************************************************)
\* The bounded values, and the records the conversions are run on.
FlattenInputs == JsonValues \cup RecordPool

FlattenInit ==
    /\ fl_data \in FlattenInputs
    /\ fl_parent \in Prefixes
    /\ fl_result = <<>>
    /\ pc = "fl_call"
    /\ json_data = Null
    /\ output_path = Null
    /\ max_rows_per_file = Null
    /\ LocalsInit
    /\ WindowInit

\* Lines 38-57.
FlattenCall ==
    /\ pc = "fl_call"
    /\ fl_result' = flatten_json(fl_data, fl_parent)
    /\ pc' = "fl_returned"
    /\ UNCHANGED <<inputs, records, flattened_records, ordered_keys, num_files,
                   file_num, i, created_files, fs, open_handles, opened, io_error,
                   result, fl_data, fl_parent, gui>>

FlattenNext == FlattenCall

FlattenSpec == FlattenInit /\ [][FlattenNext]_vars

(***************************************************************************)
(* Properties of flatten_json (checked under FlattenSpec)                  *)
(***************************************************************************)
\* The scalar leaves of v in traversal order, each with its path: the
\* object keys and decimal array indices from v down to the leaf.
RECURSIVE Leaves(_), LeavesFrom(_, _)
Leaves(v) ==
    IF IsContainer(v) THEN LeavesFrom(v, 1) ELSE << <<<<>>, v>> >>

LeavesFrom(v, n) ==
    IF n > Len(v.items) THEN <<>>
    ELSE LET seg == IF v.tag = "obj" THEN v.items[n][1] ELSE ToString(n - 1)
             child == IF v.tag = "obj" THEN v.items[n][2] ELSE v.items[n]
             sub == Leaves(child)
         IN  [m \in 1..Len(sub) |-> <<<<seg>> \o sub[m][1], sub[m][2]>>]
                 \o LeavesFrom(v, n + 1)

\* The segments joined with '_'.
RECURSIVE JoinSegs(_)
JoinSegs(segs) ==
    IF segs = <<>> THEN ""
    ELSE IF Len(segs) = 1 THEN segs[1]
    ELSE segs[1] \o "_" \o JoinSegs(Tail(segs))

\* Prefix and path joined with '_', the prefix left out when it is empty.
JoinedKey(prefix, path) ==
    JoinSegs(IF prefix = "" THEN path ELSE <<prefix>> \o path)

\* Prefix and path joined with '_' from the left, where an accumulated key
\* that is still empty is replaced by the next segment without a separator.
RECURSIVE PathKey(_, _)
PathKey(prefix, path) ==
    IF path = <<>> THEN prefix
    ELSE PathKey(IF prefix = "" THEN path[1] ELSE prefix \o "_" \o path[1], Tail(path))

\* The leaves that get an entry: all of them, except that a scalar with an
\* empty prefix gives none.
EntryLeaves(v, prefix) ==
    IF ~IsContainer(v) /\ prefix = "" THEN <<>> ELSE Leaves(v)

FlLeaves == EntryLeaves(fl_data, fl_parent)

FlLeafKey(m) == PathKey(fl_parent, FlLeaves[m][1])

FirstLeaf(key) == CHOOSE m \in 1..Len(FlLeaves) :
    /\ FlLeafKey(m) = key
    /\ \A n \in 1..(m - 1) : FlLeafKey(n) # key

LastLeaf(key) == CHOOSE m \in 1..Len(FlLeaves) :
    /\ FlLeafKey(m) = key
    /\ \A n \in (m + 1)..Len(FlLeaves) : FlLeafKey(n) # key

NoContainerValue(d) == \A m \in 1..Len(d) : ~IsContainer(d[m][2])

NoDuplicate(q) == \A m, n \in 1..Len(q) : q[m] = q[n] => m = n

\* C6 as claimed: the entries of the returned mapping are exactly the scalar
\* leaves, one entry per leaf in traversal order, keyed by the prefix and
\* the path segments joined with '_'; no value is an object or array.
C6_EntriesAreExactlyTheLeaves ==
    pc = "fl_returned" =>
        /\ NoContainerValue(fl_result)
        /\ fl_result = [m \in 1..Len(FlLeaves) |->
                           <<JoinedKey(fl_parent, FlLeaves[m][1]), FlLeaves[m][2]>>]

\* C6 (amended): flatten_json(v, p) returns a mapping with no object or
\* array value and no repeated key, whose keys are exactly the keys of the
\* scalar leaves of v (p and the path segments joined with '_' from the
\* left, an accumulated key that is still empty taking the next segment
\* without a separator), in order of first occurrence in the traversal,
\* each key holding the value of the last leaf that has it; a scalar v
\* gives {p: v} when p is non-empty and the empty mapping when p is empty.
C6_FlattenLeaves ==
    pc = "fl_returned" =>
        /\ NoContainerValue(fl_result)
        /\ NoDuplicate(DictKeys(fl_result))
        /\ Range(DictKeys(fl_result)) = {FlLeafKey(m) : m \in 1..Len(FlLeaves)}
        /\ \A m, n \in 1..Len(fl_result) :
              m < n => FirstLeaf(fl_result[m][1]) < FirstLeaf(fl_result[n][1])
        /\ \A m \in 1..Len(fl_result) :
              fl_result[m][2] = FlLeaves[LastLeaf(fl_result[m][1])][2]
        /\ (~IsContainer(fl_data) =>
              fl_result = IF fl_parent # "" THEN << <<fl_parent, fl_data>> >> ELSE <<>>)

\* A nested value under a non-empty prefix has been flattened: {"a": [1]}
\* under prefix "a" gives {"a_a_0": 1}.
C6_Witness ==
    /\ pc = "fl_returned"
    /\ fl_parent = "a"
    /\ fl_data = Obj(<< <<"a", Arr(<<Num(1)>>)>> >>)
    /\ fl_result = << <<"a_a_0", Num(1)>> >>

\* Leaves m < n of the flattened value have the same composite key.
Collide(m, n) == m < n /\ FlLeafKey(m) = FlLeafKey(n)

\* C8: when two different paths of one value flatten to the same composite
\* key, flatten_json returns (no error) a mapping with a single entry for
\* that key, and its value is the one written later in traversal order.
C8_CollisionLastWins ==
    pc = "fl_returned" =>
        \A m, n \in 1..Len(FlLeaves) :
            Collide(m, n) =>
                /\ Cardinality({e \in 1..Len(fl_result) :
                                   fl_result[e][1] = FlLeafKey(m)}) = 1
                /\ (\A o \in (n + 1)..Len(FlLeaves) : ~Collide(n, o))
                      => DictGet(fl_result, FlLeafKey(n), Null) = FlLeaves[n][2]

\* The spec's example: literal key "a_b" next to nested {"a": {"b": ...}};
\* the first value "x" is lost, the second value 1 is kept.
C8_Witness ==
    /\ pc = "fl_returned"
    /\ fl_parent = ""
    /\ fl_data = RecCollide
    /\ fl_result = << <<"a_b", Num(1)>> >>

(***************************************************************************)
(* Properties of json_to_csv (checked under Spec)                          *)
(***************************************************************************)
\* The records of the input as the caller sees them.
InputRecords ==
    IF json_data.tag = "obj" THEN <<json_data>>
    ELSE IF json_data.tag = "arr" THEN json_data.items
    ELSE <<>>

N == Len(InputRecords)

T == max_rows_per_file

Succeeded == pc = "done" /\ result.success

Ceil(n, t) == CHOOSE c \in 0..n : c * t >= n /\ (c - 1) * t < n

IsPrefix(q, r) == Len(q) <= Len(r) /\ \A m \in 1..Len(q) : q[m] = r[m]

\* The row of flattened record r under the columns keys: the text of r's
\* value where r has the key, the empty string where it has not.
ExpectedRow(r, keys) ==
    [k \in 1..Len(keys) |->
        IF HasKey(r, keys[k]) THEN csv_field(DictGet(r, keys[k], Null)) ELSE ""]

\* The rows of a file after its header.
DataRows(path) == IF fs[path] = <<>> THEN <<>> ELSE Tail(fs[path])

RECURSIVE ConcatData(_)
ConcatData(paths) ==
    IF paths = <<>> THEN <<>> ELSE DataRows(paths[1]) \o ConcatData(Tail(paths))

\* The name and path the spec gives chunk f.
ChunkName(f) == output_path.stem \o "_" \o ToString(f) \o output_path.suffix

ChunkFile(f) == [parent |-> output_path.parent, name |-> ChunkName(f)]

OutputFile == [parent |-> output_path.parent,
               name |-> output_path.stem \o output_path.suffix]

\* C1: for N >= 1 records and a positive threshold T, a conversion that
\* returns success has written ceil(N/T) files; every file but the last
\* holds T data rows, the last N - T*(ceil(N/T)-1); the data rows of the
\* files, concatenated in the order the files were written, are the rows of
\* the N flattened records in input order.
C1_SplitArithmetic ==
    (Succeeded /\ T.tag = "num" /\ T.n > 0) =>
        LET c == Ceil(N, T.n)
        IN  /\ N >= 1
            /\ Len(flattened_records) = N
            /\ Len(opened) = c
            /\ Cardinality(DOMAIN fs) = c
            /\ result.num_files = c
            /\ \A f \in 1..(c - 1) : Len(DataRows(opened[f])) = T.n
            /\ Len(DataRows(opened[c])) = N - T.n * (c - 1)
            /\ ConcatData(opened) =
                   [m \in 1..N |-> ExpectedRow(flattened_records[m], ordered_keys)]

\* Four records with threshold 3 have been written as two files, of 3 rows
\* and 1 row.
C1_Witness ==
    /\ Succeeded
    /\ T = Num(3)
    /\ N = 4
    /\ Len(opened) = 2
    /\ Len(DataRows(opened[1])) = 3
    /\ Len(DataRows(opened[2])) = 1

\* The outcome "one file at output_path": header, one row per record in
\* input order, and the report of 1 file with N rows.
SingleFileOutcome ==
    /\ DOMAIN fs = {OutputFile}
    /\ opened = <<OutputFile>>
    /\ fs[OutputFile] = <<ordered_keys>> \o
           [m \in 1..N |-> ExpectedRow(flattened_records[m], ordered_keys)]
    /\ Len(flattened_records) = N
    /\ result.num_files = 1
    /\ result.message = "Created 1 CSV file with " \o ToString(N) \o " rows"

\* C2 as claimed: with the threshold absent, or less than or equal to the
\* record count, a successful conversion wrote exactly one file at
\* output_path (header, then one row per record) and reports 1 file, N rows.
C2_SingleFileWhenAtMostCount ==
    (Succeeded /\ (T = Null \/ (T.tag = "num" /\ T.n <= N))) => SingleFileOutcome

\* C2 (amended): with the threshold absent, or greater than or equal to the
\* record count, a successful conversion wrote exactly one file at
\* output_path (header, then one row per record in input order) and
\* reports 1 file with N rows.
C2_SingleFileWhenAtLeastCount ==
    (Succeeded /\ (T = Null \/ (T.tag = "num" /\ T.n >= N))) => SingleFileOutcome

\* Three records with threshold 3 (equal to the count) went to one file.
C2_Witness ==
    /\ Succeeded
    /\ T = Num(3)
    /\ N = 3
    /\ Len(fs[OutputFile]) = 4

\* The index (from 1) of the record behind data row j (from 2, after the
\* header) of file path: the files are written in order, chunk f holding the
\* records from (f-1)*T on.
RecordOfRow(path, j) ==
    LET f == CHOOSE g \in 1..Len(opened) : opened[g] = path
    IN  (IF f > 1 THEN (f - 1) * T.n ELSE 0) + (j - 1)

\* C3: every data row of every file has len(ordered_keys) fields in
\* ordered_keys order; field k is the text of the record's flattened value
\* for ordered_keys[k] when the record has that key, else the empty string.
C3_RowCompleteness ==
    \A path \in DOMAIN fs :
        \A j \in 2..Len(fs[path]) :
            LET row == fs[path][j]
                r == flattened_records[RecordOfRow(path, j)]
            IN  /\ Len(row) = Len(ordered_keys)
                /\ \A k \in 1..Len(ordered_keys) :
                      row[k] = IF HasKey(r, ordered_keys[k])
                               THEN csv_field(DictGet(r, ordered_keys[k], Null))
                               ELSE ""

\* The second chunk file holds a row whose record lacks a column (filled
\* with '') and has another (written as its text).
C3_Witness ==
    /\ Succeeded
    /\ Len(opened) >= 2
    /\ \E j \in 2..Len(fs[opened[2]]) :
          LET r == flattened_records[RecordOfRow(opened[2], j)]
          IN  \E k, l \in 1..Len(ordered_keys) :
                 /\ ~HasKey(r, ordered_keys[k])
                 /\ fs[opened[2]][j][k] = ""
                 /\ HasKey(r, ordered_keys[l])
                 /\ fs[opened[2]][j][l] = "1"

\* The keys of the flattened records processed so far, as one sequence:
\* records in input order, each record's keys in its own order.
RECURSIVE KeyStream(_)
KeyStream(frs) ==
    IF frs = <<>> THEN <<>>
    ELSE KeyStream(SubSeq(frs, 1, Len(frs) - 1)) \o DictKeys(frs[Len(frs)])

FirstIn(q, x) == CHOOSE m \in 1..Len(q) : q[m] = x /\ \A n \in 1..(m - 1) : q[n] # x

OrderedKeysInv ==
    LET stream == KeyStream(flattened_records)
    IN  /\ NoDuplicate(ordered_keys)
        /\ Range(ordered_keys) = Range(stream)
        /\ \A m, n \in 1..Len(ordered_keys) :
              m < n => FirstIn(stream, ordered_keys[m]) < FirstIn(stream, ordered_keys[n])

\* C4: after any prefix of the records has been processed, ordered_keys has
\* no duplicate, holds exactly the keys of the flattened records processed
\* so far, in order of first appearance; every step only appends to it.
C4_OrderedKeys ==
    /\ [](OrderedKeysInv)
    /\ [][IsPrefix(ordered_keys, ordered_keys')]_vars

\* After {"a": "x"}, {"b": null, "a": 1} and the colliding record, the keys
\* are a, b, a_b: the second record's "a" was not appended again.
C4_Witness ==
    /\ pc = "flatten"
    /\ Len(flattened_records) = 3
    /\ SubSeq(records, 1, 3) = <<RecA, RecBA, RecCollide>>
    /\ ordered_keys = <<"a", "b", "a_b">>

\* ", "-separated list of names.
RECURSIVE CommaList(_)
CommaList(names) ==
    IF names = <<>> THEN ""
    ELSE IF Len(names) = 1 THEN names[1]
    ELSE CommaList(SubSeq(names, 1, Len(names) - 1)) \o ", " \o names[Len(names)]

\* C5: when the threshold is positive and smaller than the record count,
\* the f-th file opened is parent/{stem}_{f}{suffix}, nothing is written at
\* output_path, every file starts with the header ordered_keys, and a
\* successful conversion reports ceil(N/T) files and their names in order.
C5_ChunkNaming ==
    (T.tag = "num" /\ T.n > 0 /\ T.n < N) =>
        /\ \A f \in 1..Len(opened) : opened[f] = ChunkFile(f)
        /\ OutputFile \notin DOMAIN fs
        /\ \A path \in DOMAIN fs : fs[path] # <<>> => fs[path][1] = ordered_keys
        /\ \A f \in 1..Len(created_files) : fs[ChunkFile(f)] # <<>>
        /\ Succeeded =>
              LET c == Ceil(N, T.n)
              IN  /\ result.num_files = c
                  /\ Len(opened) = c
                  /\ created_files = [f \in 1..c |-> ChunkName(f)]
                  /\ result.message =
                         "Created " \o ToString(c) \o " CSV file(s) with " \o ToString(N)
                             \o " total rows: " \o CommaList([f \in 1..c |-> ChunkName(f)])

\* Three records with threshold 2 were written to out_1.csv and out_2.csv.
C5_Witness ==
    /\ Succeeded
    /\ result.message = "Created 2 CSV file(s) with 3 total rows: out_1.csv, out_2.csv"
    /\ DOMAIN fs = {[parent |-> "dir", name |-> "out_1.csv"],
                    [parent |-> "dir", name |-> "out_2.csv"]}

\* C7: the empty list fails with the empty-input error, a top-level value
\* that is neither object nor array fails with the top-level-type error;
\* the error is the returned outcome, and no file is ever opened or written.
C7_InputErrors ==
    (json_data = Arr(<<>>) \/ json_data.tag \notin {"obj", "arr"}) =>
        /\ pc \in {"start", "done"}
        /\ fs = EmptyFs
        /\ opened = <<>>
        /\ open_handles = {}
        /\ pc = "done" =>
              result = [success |-> FALSE, num_files |-> 0,
                        message |-> IF json_data = Arr(<<>>)
                                    THEN "JSON data is empty"
                                    ELSE "JSON data must be a dict or list of dicts"]

\* The empty list was rejected.
C7_Witness ==
    /\ pc = "done"
    /\ json_data = Arr(<<>>)
    /\ result.message = "JSON data is empty"
    /\ fs = EmptyFs

\* The whole content of chunk file f: the header and the rows of its slice.
ChunkContent(f) ==
    <<ordered_keys>> \o
        [m \in 1..(Min(f * T.n, N) - (f - 1) * T.n) |->
            ExpectedRow(flattened_records[(f - 1) * T.n + m], ordered_keys)]

\* C9: when opening or writing chunk file k fails, the call returns the
\* failure with the cause, no chunk beyond k was opened, no file was opened
\* twice, and the chunk files 1..k-1 are on disk, complete.
C9_SplitWriteFailure ==
    (pc = "done" /\ io_error # Null /\ num_files > 0) =>
        /\ result = [success |-> FALSE, num_files |-> 0, message |-> io_error.s]
        /\ Len(opened) \in {file_num - 1, file_num}
        /\ \A f \in 1..Len(opened) : opened[f] = ChunkFile(f)
        /\ \A f \in 1..(file_num - 1) :
              ChunkFile(f) \in DOMAIN fs /\ fs[ChunkFile(f)] = ChunkContent(f)
        /\ \A f \in (file_num + 1)..num_files : ChunkFile(f) \notin DOMAIN fs

\* Chunk 2 of 3 failed after it was opened: chunk 1 is complete, chunk 3
\* does not exist.
C9_Witness ==
    /\ pc = "done"
    /\ io_error = Str("No space left on device")
    /\ num_files = 3
    /\ file_num = 2
    /\ Len(opened) = 2
    /\ result.message = "No space left on device"
    /\ fs[ChunkFile(1)] = ChunkContent(1)

\* The files opened before the last one are complete.
EarlierFilesComplete(paths) ==
    \A f \in 1..(Len(paths) - 1) :
        /\ paths[f] \in DOMAIN fs
        /\ fs[paths[f]] = ChunkContent(f)

\* C10: at most one output file is open in every state; a file is opened
\* only when no file is open and every file opened before has its header
\* and all of its rows; no file is open once the call has returned, also
\* after a failed write.
C10_OneFileOpen ==
    /\ [](Cardinality(open_handles) <= 1 /\ (pc = "done" => open_handles = {}))
    /\ [][opened' # opened =>
             /\ open_handles = {}
             /\ open_handles' = {opened'[Len(opened')]}
             /\ EarlierFilesComplete(opened')]_vars

\* The second chunk file is the open one; the first is closed.
C10_Witness ==
    /\ pc = "chunk_rows"
    /\ file_num = 2
    /\ open_handles = {ChunkFile(2)}
    /\ fs[ChunkFile(1)] = ChunkContent(1)

(***************************************************************************)
(* JsonToCsvWindow and ConversionThread                                    *)
(*                                                                         *)
(* The handlers run on the GUI thread, one at a time; a ConversionThread   *)
(* runs beside them and its finished signal is queued to the GUI thread.   *)
(* A message box or file dialog is shown and dismissed inside the handler  *)
(* that opens it.  The status log (add_status) is not represented.         *)
(***************************************************************************)
MaxConversions == 2

\* The texts the user can have in the editor: empty, blank, valid JSON,
\* invalid JSON.
EditorTexts == {"", " ", "{}", "{"}

\* str.strip() on the texts above.
strip(text) == IF text = " " THEN "" ELSE text

\* json.loads / json.load: parsed, or JSONDecodeError.
json_loads(text) == text = "{}"

file_parses(name) == name = "good.json"

SpinboxValue == 100000

\* update_convert_button_state: the value passed to convert_btn.setEnabled.
button_state(selected, text_content, tab, files) ==
    IF tab = 0
    THEN selected # Null /\ selected.s \in files
    ELSE text_content # Null /\ strip(text_content.s) # ""

\* browse_json_file: the dialog returns an existing file, or '' on cancel.
BrowseJsonFile ==
    /\ pc = "gui" /\ app = "running"
    /\ \E chosen \in existing_files :
          /\ json_file_path' = Str(chosen)
          /\ convert_btn_enabled' = button_state(Str(chosen), json_text_content,
                                                 current_tab, existing_files)
    /\ UNCHANGED <<inputs, records, flattened_records, ordered_keys, num_files,
                   file_num, i, created_files, fs, open_handles, opened, io_error,
                   result, pc, flat, json_text_content, editor_text, current_tab,
                   split_checked, progress_visible, last_box, threads,
                   conversion_thread, existing_files, app>>

\* The user edits the text; textChanged runs on_json_text_changed.
OnJsonTextChanged ==
    /\ pc = "gui" /\ app = "running"
    /\ \E text \in EditorTexts \ {editor_text} :
          LET content == IF strip(text) # "" THEN Str(strip(text)) ELSE Null
          IN  /\ editor_text' = text
              /\ json_text_content' = content
              /\ convert_btn_enabled' = button_state(json_file_path, content,
                                                     current_tab, existing_files)
    /\ UNCHANGED <<inputs, records, flattened_records, ordered_keys, num_files,
                   file_num, i, created_files, fs, open_handles, opened, io_error,
                   result, pc, flat, json_file_path, current_tab, split_checked,
                   progress_visible, last_box, threads, conversion_thread,
                   existing_files, app>>

\* clear_json_text: the Clear button.  json_text_edit.clear() runs
\* on_json_text_changed when the text was not empty; the handler then sets
\* the content to None and updates the button again.
ClearJsonText ==
    /\ pc = "gui" /\ app = "running"
    /\ editor_text' = ""
    /\ json_text_content' = Null
    /\ convert_btn_enabled' = button_state(json_file_path, Null, current_tab,
                                           existing_files)
    /\ UNCHANGED <<inputs, records, flattened_records, ordered_keys, num_files,
                   file_num, i, created_files, fs, open_handles, opened, io_error,
                   result, pc, flat, json_file_path, current_tab, split_checked,
                   progress_visible, last_box, threads, conversion_thread,
                   existing_files, app>>

\* on_tab_changed: the user brings the other tab to the front.
OnTabChanged ==
    /\ pc = "gui" /\ app = "running"
    /\ current_tab' = 1 - current_tab
    /\ convert_btn_enabled' = button_state(json_file_path, json_text_content,
                                           1 - current_tab, existing_files)
    /\ UNCHANGED <<inputs, records, flattened_records, ordered_keys, num_files,
                   file_num, i, created_files, fs, open_handles, opened, io_error,
                   result, pc, flat, json_file_path, json_text_content, editor_text,
                   split_checked, progress_visible, last_box, threads,
                   conversion_thread, existing_files, app>>

\* The split checkbox is toggled (it only enables the spin box).
ToggleSplit ==
    /\ pc = "gui" /\ app = "running"
    /\ split_checked' = ~split_checked
    /\ UNCHANGED <<inputs, records, flattened_records, ordered_keys, num_files,
                   file_num, i, created_files, fs, open_handles, opened, io_error,
                   result, pc, flat, json_file_path, json_text_content, editor_text,
                   current_tab, convert_btn_enabled, progress_visible, last_box,
                   threads, conversion_thread, existing_files, app>>

\* The environment: a selected file is deleted from the disk.
RemoveFile ==
    /\ pc = "gui" /\ app = "running"
    /\ \E name \in existing_files : existing_files' = existing_files \ {name}
    /\ UNCHANGED <<inputs, records, flattened_records, ordered_keys, num_files,
                   file_num, i, created_files, fs, open_handles, opened, io_error,
                   result, pc, flat, json_file_path, json_text_content, editor_text,
                   current_tab, split_checked, convert_btn_enabled, progress_visible,
                   last_box, threads, conversion_thread, app>>

\* The checks of convert_to_csv before the save dialog: "warning" when the
\* current tab has no input, "critical" when it does not parse, "ok" else.
input_check ==
    IF current_tab = 0
    THEN IF json_file_path = Null \/ json_file_path.s \notin existing_files
         THEN "warning"
         ELSE IF file_parses(json_file_path.s) THEN "ok" ELSE "critical"
    ELSE IF json_text_content = Null \/ strip(json_text_content.s) = ""
         THEN "warning"
         ELSE IF json_loads(json_text_content.s) THEN "ok" ELSE "critical"

Running(k) == threads[k].state = "running"

\* convert_to_csv: a click on the enabled convert button.  An input that is
\* missing or does not parse ends in a message box; a cancelled save dialog
\* ends the handler; otherwise the button is disabled, the progress bar
\* shown and a new ConversionThread started.  Rebinding conversion_thread
\* drops the only reference to the previous thread object: when that thread
\* is still running, destroying it may abort the process.
ConvertToCsv ==
    /\ pc = "gui" /\ app = "running"
    /\ convert_btn_enabled
    /\ \/ /\ input_check # "ok"
          /\ last_box' = input_check
          /\ UNCHANGED <<convert_btn_enabled, progress_visible, threads,
                         conversion_thread, app>>
       \/ /\ input_check = "ok"
          /\ Len(threads) < MaxConversions
          /\ convert_btn_enabled' = FALSE
          /\ progress_visible' = TRUE
          /\ threads' = Append(threads,
                 [state |-> "running",
                  max_rows_per_file |-> IF split_checked THEN Num(SpinboxValue) ELSE Null])
          /\ conversion_thread' = Len(threads) + 1
          /\ IF conversion_thread # 0 /\ Running(conversion_thread)
             THEN app' \in {"running", "aborted"}
             ELSE app' = app
          /\ UNCHANGED last_box
    /\ UNCHANGED <<inputs, records, flattened_records, ordered_keys, num_files,
                   file_num, i, created_files, fs, open_handles, opened, io_error,
                   result, pc, flat, json_file_path, json_text_content, editor_text,
                   current_tab, split_checked, existing_files>>

\* ConversionThread.run: json_to_csv returns and finished(success, message)
\* is emitted; the signal is queued to the GUI thread.
ThreadRun ==
    /\ pc = "gui" /\ app = "running"
    /\ \E k \in 1..Len(threads) :
          /\ Running(k)
          /\ \E success \in BOOLEAN :
                threads' = [threads EXCEPT ![k] =
                               [state |-> "emitted", success |-> success]]
    /\ UNCHANGED <<inputs, records, flattened_records, ordered_keys, num_files,
                   file_num, i, created_files, fs, open_handles, opened, io_error,
                   result, pc, flat, json_file_path, json_text_content, editor_text,
                   current_tab, split_checked, convert_btn_enabled, progress_visible,
                   last_box, conversion_thread, existing_files, app>>

\* on_conversion_finished: the queued finished signal of a thread is
\* delivered.
OnConversionFinished ==
    /\ pc = "gui" /\ app = "running"
    /\ \E k \in 1..Len(threads) :
          /\ threads[k].state = "emitted"
          /\ progress_visible' = FALSE
          /\ convert_btn_enabled' = TRUE
          /\ last_box' = IF threads[k].success THEN "information" ELSE "critical"
          /\ threads' = [threads EXCEPT ![k] = [state |-> "handled"]]
    /\ UNCHANGED <<inputs, records, flattened_records, ordered_keys, num_files,
                   file_num, i, created_files, fs, open_handles, opened, io_error,
                   result, pc, flat, json_file_path, json_text_content, editor_text,
                   current_tab, split_checked, conversion_thread, existing_files, app>>

WindowSpecInit ==
    /\ pc = "gui"
    /\ json_data = Null
    /\ output_path = Null
    /\ max_rows_per_file = Null
    /\ LocalsInit
    /\ fl_data = Null
    /\ fl_parent = ""
    /\ fl_result = <<>>
    /\ WindowInit

WindowNext ==
    \/ BrowseJsonFile
    \/ OnJsonTextChanged
    \/ ClearJsonText
    \/ OnTabChanged
    \/ ToggleSplit
    \/ RemoveFile
    \/ ConvertToCsv
    \/ ThreadRun
    \/ OnConversionFinished

WindowSpec == WindowSpecInit /\ [][WindowNext]_vars

\* The threads that were started and whose on_conversion_finished has not
\* run yet.
InProgress == {k \in 1..Len(threads) : threads[k].state # "handled"}

\* C11: from the start of a ConversionThread until on_conversion_finished
\* runs for it the convert button is disabled, whatever GUI events arrive,
\* so at most one ConversionThread is in progress at any time.
C11_ButtonDisabledWhileConverting ==
    /\ InProgress # {} => ~convert_btn_enabled
    /\ Cardinality(InProgress) <= 1

====
